---------------------------- MODULE Spec2Model ----------------------------
(***************************************************************************)
(* Model of useSearch (demo/wiki/client/src/search/search.ts): the         *)
(* debounced search hook.  A raw query string is a sequence of one-        *)
(* character strings.  Every run of the effect (one per change of `query`, *)
(* and one on mount) schedules one attempt, identified by the handle       *)
(* window.setTimeout returned.  The suspension points of an attempt are    *)
(* the timer, `await client.search` and `await Promise.all` over the       *)
(* fetches; everything between two suspension points runs in one step.     *)
(***************************************************************************)
EXTENDS Integers, Sequences, FiniteSets, TLC

VARIABLES query, results, searchDebounce, attempts, committer

vars == <<query, results, searchDebounce, attempts, committer>>

(***************************************************************************)
(* Bounds of the model.                                                    *)
(***************************************************************************)
\* runs of the effect (timer handles), interleaving specification
MaxAttempts == 3
\* identifiers in one index response, fan-out specification
MaxResults == 3
\* length of a raw query, tokenizer specification
MaxLen == 3
\* distinct Wikipedia page ids
MaxPageId == 3

\* the delay handed to window.setTimeout
SearchDelay == 250

\* amounts by which the clock advances between two events
TickSteps == {50, 100}

(***************************************************************************)
(* Characters and strings.                                                 *)
(***************************************************************************)
LowerChars ==
    <<"a","b","c","d","e","f","g","h","i","j","k","l","m",
      "n","o","p","q","r","s","t","u","v","w","x","y","z">>

UpperChars ==
    <<"A","B","C","D","E","F","G","H","I","J","K","L","M",
      "N","O","P","Q","R","S","T","U","V","W","X","Y","Z">>

DigitChars == <<"0","1","2","3","4","5","6","7","8","9">>

Range(f) == {f[i] : i \in DOMAIN f}

\* the complement of the class [^a-zA-Z0-9]
IsAlnum(c) == c \in Range(LowerChars) \cup Range(UpperChars) \cup Range(DigitChars)

\* String.prototype.toLowerCase on one character
LowerChar(c) ==
    IF c \in Range(UpperChars)
    THEN LowerChars[CHOOSE i \in DOMAIN UpperChars : UpperChars[i] = c]
    ELSE c

NoLowerCase(t) == t

toLowerCase(t) == [i \in DOMAIN t |-> LowerChar(t[i])]

\* query.split(/[^a-zA-Z0-9]+/): the fragments between the maximal separator
\* runs, the empty fragments before a leading and after a trailing run included
RECURSIVE SplitFrom(_, _, _, _)
SplitFrom(s, i, cur, acc) ==
    IF i > Len(s) THEN Append(acc, cur)
    ELSE IF IsAlnum(s[i]) THEN SplitFrom(s, i + 1, Append(cur, s[i]), acc)
    ELSE IF i > 1 /\ ~IsAlnum(s[i - 1]) THEN SplitFrom(s, i + 1, cur, acc)
    ELSE SplitFrom(s, i + 1, <<>>, Append(acc, cur))

split(s) == SplitFrom(s, 1, <<>>, <<>>)

NoFilter(frags) == frags

\* .filter(t => t): the empty string is the only falsy string
FilterTruthy(frags) == SelectSeq(frags, LAMBDA t : t # <<>>)

\* the terms of the effect
Tokenize(q) ==
    LET frags == FilterTruthy(split(q))
    IN  [i \in DOMAIN frags |-> toLowerCase(frags[i])]

(***************************************************************************)
(* Responses of the two remote services.                                   *)
(***************************************************************************)
PageIds == 1 .. MaxPageId

\* metadata.thumbnail?.source: undefined, the empty string or a URL
NoThumbnail == "undefined"

Thumbnails == {NoThumbnail, "", "a.png"}

SeqsUpTo(S, n) == UNION {[1 .. k -> S] : k \in 0 .. n}

\* what client.search may resolve to, with at most n identifiers: the first k
\* of A, B, A, B, ..., so that an identifier may be returned twice
IndexResponses(n) ==
    [results : {[i \in 1 .. k |-> IF i % 2 = 1 THEN "A" ELSE "B"] : k \in 0 .. n},
     more    : BOOLEAN]

NotFound == [status |-> 404, pageid |-> 0, thumbnail |-> NoThumbnail]

\* what a fetch of a page summary may resolve to
FetchResponses ==
    {NotFound} \cup [status : {200}, pageid : PageIds, thumbnail : Thumbnails]

\* a small fixed encyclopedia: the index answers a query with one title per
\* term, "B" redirects to the page of "A", and the third hit is missing
WorldTitles == <<"A", "B", "C">>

WorldIndex(terms) ==
    LET n == IF Len(terms) < Len(WorldTitles) THEN Len(terms) ELSE Len(WorldTitles)
    IN  {[results |-> SubSeq(WorldTitles, 1, n), more |-> Len(terms) = 1]}

WorldFetch(title) ==
    IF title = "A" THEN {[status |-> 200, pageid |-> 1, thumbnail |-> "a.png"]}
    ELSE IF title = "B" THEN {[status |-> 200, pageid |-> 1, thumbnail |-> ""]}
    ELSE {NotFound}

(***************************************************************************)
(* The slots of `articles`, the array Promise.all fills in index order.    *)
(***************************************************************************)
Pending == [st |-> "pending", id |-> 0, title |-> "", image |-> NoThumbnail]

Null == [st |-> "null", id |-> 0, title |-> "", image |-> NoThumbnail]

Rejected == [st |-> "rejected", id |-> 0, title |-> "", image |-> NoThumbnail]

IsSuccess(res) == ~(res.status < 200 \/ res.status > 299)

\* the async callback of titles.results.map once its fetch has resolved
Summary(title, res) ==
    IF ~IsSuccess(res) THEN Null
    ELSE [st |-> "ok", id |-> res.pageid, title |-> title, image |-> res.thumbnail]

(***************************************************************************)
(* Deduplication and classification.                                       *)
(***************************************************************************)
HasImageProperty(article) == article.image # NoThumbnail

\* if (article.image): undefined and the empty string are falsy
HasImage(article) == article.image # NoThumbnail /\ article.image # ""

SkippedIfNull(article, articleIds) == article.st # "ok"

\* !article || articleIds.has(article.id)
Skipped(article, articleIds) == article.st # "ok" \/ article.id \in articleIds

RECURSIVE ClassifyFrom(_, _, _, _, _)
ClassifyFrom(articles, i, articleIds, fullArticles, basicArticles) ==
    IF i > Len(articles)
    THEN [fullArticles |-> fullArticles, basicArticles |-> basicArticles]
    ELSE IF Skipped(articles[i], articleIds)
    THEN ClassifyFrom(articles, i + 1, articleIds, fullArticles, basicArticles)
    ELSE IF HasImage(articles[i])
    THEN ClassifyFrom(articles, i + 1, articleIds \cup {articles[i].id},
                      Append(fullArticles, articles[i]), basicArticles)
    ELSE ClassifyFrom(articles, i + 1, articleIds \cup {articles[i].id},
                      fullArticles, Append(basicArticles, articles[i]))

CountsIdentifiers(titles, fullArticles, basicArticles) ==
    [fullArticles  |-> fullArticles,
     basicArticles |-> basicArticles,
     count         |-> Len(titles.results),
     more          |-> titles.more]

\* the object handed to setResults
FulfilledSearchResults(titles, fullArticles, basicArticles) ==
    [fullArticles  |-> fullArticles,
     basicArticles |-> basicArticles,
     count         |-> Len(fullArticles) + Len(basicArticles),
     more          |-> titles.more]

\* the tail of the timer callback, from the dedup loop to setResults
Fulfil(titles, articles) ==
    LET c == ClassifyFrom(articles, 1, {}, <<>>, <<>>)
    IN  FulfilledSearchResults(titles, c.fullArticles, c.basicArticles)

(***************************************************************************)
(* State.  attempts[h] is the run of the effect whose timer handle is h    *)
(* (window.setTimeout hands out 1, 2, 3, ...):                             *)
(*   pc        "scheduled"  the timer is pending                           *)
(*             "cancelled"  clearTimeout removed the timer                 *)
(*             "searching"  the callback awaits client.search              *)
(*             "rejected"   client.search rejected, the callback threw     *)
(*             "stale"      the callback returned at the searchId check    *)
(*             "fetching"   the callback awaits Promise.all                *)
(*             "aborted"    a fetch rejected, Promise.all rejected         *)
(*             "done"       the callback called setResults                 *)
(*   raw       the value of `query` the effect ran for                     *)
(*   terms     the terms the callback closes over                          *)
(*   remaining time left until the timer is due; kept once cancelled       *)
(*   titles    the index response                                          *)
(*   articles  the array of Promise.all, one slot per identifier           *)
(* results is <<>> for undefined and <<r>> for the object r; committer is  *)
(* the handle whose callback wrote the object, 0 when results is undefined.*)
(***************************************************************************)
Undefined == <<>>

NoTitles == [results |-> <<>>, more |-> FALSE]

Handles == DOMAIN attempts

\* no timer is registered for a query without terms
NewAttemptUnlessEmpty(q) ==
    [pc        |-> IF Tokenize(q) = <<>> THEN "cancelled" ELSE "scheduled",
     raw       |-> q,
     terms     |-> Tokenize(q),
     remaining |-> SearchDelay,
     titles    |-> [results |-> <<>>, more |-> FALSE],
     articles  |-> <<>>]

\* window.setTimeout(callback, 250) registered by the effect run for q
NewAttempt(q) ==
    [pc        |-> "scheduled",
     raw       |-> q,
     terms     |-> Tokenize(q),
     remaining |-> SearchDelay,
     titles    |-> NoTitles,
     articles  |-> <<>>]

ClearTimeoutNoop(timers, handle) == timers

\* clearTimeout(handle): a no-op unless the handle names a pending timer
clearTimeout(timers, handle) ==
    IF handle \in DOMAIN timers /\ timers[handle].pc = "scheduled"
    THEN [timers EXCEPT ![handle].pc = "cancelled"]
    ELSE timers

KeepResults == results

\* setResults(undefined)
ClearedResults == Undefined

CurrentNotAssigned(handle) == searchDebounce

\* searchDebounce.current = window.setTimeout(...): the handle of the new
\* timer, which is also the callback's searchId
AssignCurrent(handle) == handle

\* the body of the effect, run for the value q of `query`
Effect(q) ==
    /\ results' = ClearedResults
    /\ committer' = IF ClearedResults = Undefined THEN 0 ELSE committer
    /\ attempts' = Append(clearTimeout(attempts, searchDebounce), NewAttempt(q))
    /\ searchDebounce' = AssignCurrent(Len(attempts) + 1)

\* useState(''), useState(undefined), useRef(), and the effect run on mount
Init ==
    /\ query = <<>>
    /\ results = Undefined
    /\ committer = 0
    /\ attempts = <<NewAttempt(<<>>)>>
    /\ searchDebounce = 1

\* setQuery(q) with a new value, and the effect React then runs
SetQuery(q, maxAttempts) ==
    /\ q # query
    /\ Len(attempts) < maxAttempts
    /\ query' = q
    /\ Effect(q)

Scheduled == {h \in Handles : attempts[h].pc = "scheduled"}

\* time passes; a timer runs when it is due, so time stops at its deadline
Tick(d) ==
    /\ Scheduled # {}
    /\ \A h \in Scheduled : attempts[h].remaining >= d
    /\ attempts' = [h \in Handles |->
                      IF h \in Scheduled
                      THEN [attempts[h] EXCEPT !.remaining = @ - d]
                      ELSE attempts[h]]
    /\ UNCHANGED <<query, results, searchDebounce, committer>>

\* the timer callback starts: client.search(...terms) is called
TimerFires(h) ==
    /\ attempts[h].pc = "scheduled"
    /\ attempts[h].remaining = 0
    /\ attempts' = [attempts EXCEPT ![h].pc = "searching"]
    /\ UNCHANGED <<query, results, searchDebounce, committer>>

\* client.search rejects: the callback throws at its first await
SearchRejects(h) ==
    /\ attempts[h].pc = "searching"
    /\ attempts' = [attempts EXCEPT ![h].pc = "rejected"]
    /\ UNCHANGED <<query, results, searchDebounce, committer>>

AlwaysCurrent(searchId) == TRUE

\* the negation of searchId !== searchDebounce.current
IsCurrent(searchId) == searchId = searchDebounce

\* setResults({...}) by the callback of handle h
Commit(h, titles, articles) ==
    /\ results' = <<Fulfil(titles, articles)>>
    /\ committer' = h

\* client.search resolves with titles; the callback returns when superseded,
\* otherwise issues one fetch per identifier; Promise.all of no promise
\* resolves at once
SearchResolves(h, titles) ==
    /\ attempts[h].pc = "searching"
    /\ IF ~IsCurrent(h)
       THEN /\ attempts' = [attempts EXCEPT ![h].pc = "stale"]
            /\ UNCHANGED <<results, committer>>
       ELSE IF titles.results = <<>>
       THEN /\ attempts' = [attempts EXCEPT ![h].pc = "done", ![h].titles = titles]
            /\ Commit(h, titles, <<>>)
       ELSE /\ attempts' = [attempts EXCEPT
                              ![h].pc = "fetching",
                              ![h].titles = titles,
                              ![h].articles = [i \in DOMAIN titles.results |-> Pending]]
            /\ UNCHANGED <<results, committer>>
    /\ UNCHANGED <<query, searchDebounce>>

\* the value is stored in the first free slot, in order of arrival
SettleInArrivalOrder(articles, i, article) ==
    LET k == CHOOSE j \in DOMAIN articles :
               /\ articles[j] = Pending
               /\ \A l \in DOMAIN articles : l < j => articles[l] # Pending
    IN  [articles EXCEPT ![k] = article]

\* Promise.all stores a value at the index of its promise
Settle(articles, i, article) == [articles EXCEPT ![i] = article]

AnySettled(articles) == \E j \in DOMAIN articles : articles[j] # Pending

\* Promise.all resolves once every promise has resolved
AllSettled(articles) == \A j \in DOMAIN articles : articles[j] # Pending

\* the fetch of identifier i resolves with res; when it was the last one
\* outstanding, Promise.all resolves and the callback runs to its end
FetchResolves(h, i, res) ==
    /\ attempts[h].pc = "fetching"
    /\ attempts[h].articles[i] = Pending
    /\ LET titles   == attempts[h].titles
           articles == Settle(attempts[h].articles, i, Summary(titles.results[i], res))
       IN  IF ~AllSettled(articles)
           THEN /\ attempts' = [attempts EXCEPT ![h].articles = articles]
                /\ UNCHANGED <<results, committer>>
           ELSE /\ attempts' = [attempts EXCEPT ![h].pc = "done", ![h].articles = articles]
                /\ Commit(h, titles, articles)
    /\ UNCHANGED <<query, searchDebounce>>

\* the fetch of identifier i rejects (or res.json() does): Promise.all rejects
\* and the callback throws at its second await
FetchRejects(h, i) ==
    /\ attempts[h].pc = "fetching"
    /\ attempts[h].articles[i] = Pending
    /\ attempts' = [attempts EXCEPT ![h].pc = "aborted", ![h].articles[i] = Rejected]
    /\ UNCHANGED <<query, results, searchDebounce, committer>>

(***************************************************************************)
(* Specifications.                                                         *)
(***************************************************************************)
\* the raw queries typed in the interleaving specification
Queries == {<<>>, <<"a">>, <<"A", " ", "b">>}

\* any interleaving of submissions, timers and responses over the small
\* encyclopedia
Next ==
    \/ \E q \in Queries : SetQuery(q, MaxAttempts)
    \/ \E d \in TickSteps : Tick(d)
    \/ \E h \in Handles : TimerFires(h)
    \/ \E h \in Handles : SearchRejects(h)
    \/ \E h \in Handles : \E t \in WorldIndex(attempts[h].terms) : SearchResolves(h, t)
    \/ \E h \in Handles : \E i \in DOMAIN attempts[h].articles :
         \E res \in WorldFetch(attempts[h].titles.results[i]) : FetchResolves(h, i, res)
    \/ \E h \in Handles : \E i \in DOMAIN attempts[h].articles : FetchRejects(h, i)

Spec == Init /\ [][Next]_vars

\* the attempt of the mount alone, the two services answering anything
NextFanout ==
    \/ \E d \in TickSteps : Tick(d)
    \/ \E h \in Handles : TimerFires(h)
    \/ \E h \in Handles : SearchRejects(h)
    \/ \E h \in Handles : \E t \in IndexResponses(MaxResults) : SearchResolves(h, t)
    \/ \E h \in Handles : \E i \in DOMAIN attempts[h].articles :
         \E res \in FetchResponses : FetchResolves(h, i, res)
    \/ \E h \in Handles : \E i \in DOMAIN attempts[h].articles : FetchRejects(h, i)

SpecFanout == Init /\ [][NextFanout]_vars

Alphabet == {"a", "A", "1", " ", ","}

\* every string over Alphabet of at most MaxLen characters
RawQueries == SeqsUpTo(Alphabet, MaxLen)

\* the first change of the query, to any string, over the small encyclopedia
NextTokens ==
    \/ \E q \in RawQueries : searchDebounce = 1 /\ SetQuery(q, MaxAttempts)
    \/ \E d \in TickSteps : Tick(d)
    \/ \E h \in Handles : TimerFires(h)
    \/ \E h \in Handles : SearchRejects(h)
    \/ \E h \in Handles : \E t \in WorldIndex(attempts[h].terms) : SearchResolves(h, t)
    \/ \E h \in Handles : \E i \in DOMAIN attempts[h].articles :
         \E res \in WorldFetch(attempts[h].titles.results[i]) : FetchResolves(h, i, res)
    \/ \E h \in Handles : \E i \in DOMAIN attempts[h].articles : FetchRejects(h, i)

SpecTokens == Init /\ [][NextTokens]_vars

(***************************************************************************)
(* Properties.                                                             *)
(***************************************************************************)
Started(h) == attempts[h].pc \notin {"scheduled", "cancelled"}

\* C1: stale-result rejection.  An attempt superseded before its pipeline
\* completes never writes to results: whenever results holds an object, the
\* handle of the callback that wrote it is the current searchDebounce.current.
C1_StaleResultRejection ==
    results # Undefined => committer = searchDebounce

\* C2: results is undefined while the attempt of the current raw query has not
\* committed (timer pending, index query outstanding, fan-out outstanding), and
\* an object in results was produced by the attempt of the current raw query.
C2_PendingIsUndefined ==
    /\ attempts[searchDebounce].pc \in {"scheduled", "searching", "fetching"}
         => results = Undefined
    /\ results # Undefined => attempts[committer].raw = query

\* C3: every change of the raw query sets results to undefined in the same
\* step, whatever it held, and in that step the new timer is only scheduled: no
\* callback starts and no network call is made.
C3_ClearOnSubmit ==
    [][query' # query =>
         /\ results' = Undefined
         /\ attempts'[searchDebounce'].pc = "scheduled"
         /\ attempts'[searchDebounce'].remaining = SearchDelay
         /\ \A h \in Handles : attempts'[h].pc \in {attempts[h].pc, "cancelled"}]_vars

\* a result was committed, and the next submission has just cleared it
C3_Witness ==
    /\ searchDebounce > 1
    /\ attempts[searchDebounce - 1].pc = "done"
    /\ attempts[searchDebounce - 1].titles.results # <<>>
    /\ attempts[searchDebounce].pc = "scheduled"
    /\ attempts[searchDebounce].remaining = SearchDelay
    /\ results = Undefined

\* C4: debounce.  At most one timer is pending, and it is the one of the last
\* submission; a cancelled timer never starts its attempt; an attempt that was
\* superseded less than 250 time units after its submission never fires, and an
\* attempt that fires does so 250 time units after its own submission, which no
\* later submission preceded.
C4_Inv ==
    /\ Cardinality(Scheduled) <= 1
    /\ Scheduled \subseteq {searchDebounce}
    /\ searchDebounce = Len(attempts)
    /\ \A h \in Handles :
         /\ h < Len(attempts) /\ attempts[h].remaining > 0 => attempts[h].pc = "cancelled"
         /\ Started(h) => attempts[h].remaining = 0
         /\ attempts[h].pc = "scheduled" => attempts[h].remaining \in 0 .. SearchDelay

C4_Debounce ==
    /\ []C4_Inv
    /\ [][\A h \in Handles :
            /\ attempts[h].pc = "cancelled" => attempts'[h].pc = "cancelled"
            /\ ~Started(h) /\ attempts'[h].pc = "searching"
                 => h = searchDebounce /\ attempts[h].remaining = 0]_vars

\* submissions at t = 0 and t = 100: the first timer is cancelled with 150 left,
\* the second attempt has fired
C4_Witness ==
    /\ Len(attempts) = 2
    /\ attempts[1].pc = "cancelled"
    /\ attempts[1].remaining = SearchDelay - 100
    /\ attempts[2].pc = "searching"

\* C5: index failure.  Once the index query of an attempt has failed, results
\* is undefined until an attempt of a later submission commits.
C5_IndexFailure ==
    \A h \in Handles :
      attempts[h].pc = "rejected" => results = Undefined \/ committer > h

\* the slots of a that hold a summary, and those holding the first summary of
\* their entity id in index order
OkSlots(a) == {i \in DOMAIN a : a[i].st = "ok"}

FirstSlots(a) ==
    {i \in OkSlots(a) : \A j \in OkSlots(a) : j < i => a[j].id # a[i].id}

Occurrences(seq, x) == Cardinality({k \in DOMAIN seq : seq[k] = x})

\* C6: isolated resolver failure.  The failure of a resolution never ends the
\* attempt without a commit, and the committed object holds exactly the entity
\* ids of the resolutions that succeeded, count being their number.
C6_IsolatedResolverFailure ==
    \A h \in Handles :
      /\ attempts[h].pc # "aborted"
      /\ attempts[h].pc = "done" /\ committer = h =>
           LET a   == attempts[h].articles
               all == results[1].fullArticles \o results[1].basicArticles
           IN  /\ {all[k].id : k \in DOMAIN all} = {a[i].id : i \in OkSlots(a)}
               /\ results[1].count = Cardinality({a[i].id : i \in OkSlots(a)})

\* C7: dedup.  In a committed object no entity id occurs twice across
\* fullArticles and basicArticles, and the summary kept for an entity id is the
\* one of the first identifier, in index order, that resolved to that id,
\* whatever the order in which the resolutions completed.
C7_Dedup ==
    results # Undefined =>
      LET a   == attempts[committer].articles
          ids == attempts[committer].titles.results
          all == results[1].fullArticles \o results[1].basicArticles
      IN  /\ \A k, l \in DOMAIN all : k # l => all[k].id # all[l].id
          /\ \A i \in OkSlots(a) : a[i].title = ids[i]
          /\ \A k \in DOMAIN all : \E i \in FirstSlots(a) : all[k] = a[i]
          /\ \A i \in FirstSlots(a) : \E k \in DOMAIN all : all[k] = a[i]

\* two identifiers resolved to one entity id with different summaries, and a
\* third one after them to another id
C7_Witness ==
    /\ results # Undefined
    /\ LET a == attempts[committer].articles
       IN  /\ Len(a) = 3
           /\ OkSlots(a) = {1, 2, 3}
           /\ a[1].id = a[2].id /\ a[1] # a[2]
           /\ a[3].id # a[1].id
           /\ results[1].count = 2

\* C8: classification.  Every summary of fullArticles has a non-empty image,
\* every summary of basicArticles has none or the empty one, every first-seen
\* summary is in exactly one of the two sequences, once, and each sequence is in
\* index order.
C8_Classification ==
    results # Undefined =>
      LET a     == attempts[committer].articles
          full  == results[1].fullArticles
          basic == results[1].basicArticles
          slot(x) == CHOOSE i \in FirstSlots(a) : a[i].id = x.id
      IN  /\ \A k \in DOMAIN full : full[k].image \notin {NoThumbnail, ""}
          /\ \A k \in DOMAIN basic : basic[k].image \in {NoThumbnail, ""}
          /\ \A i \in FirstSlots(a) :
               Occurrences(full, a[i]) + Occurrences(basic, a[i]) = 1
          /\ \A k \in DOMAIN full : \E i \in FirstSlots(a) : a[i].id = full[k].id
          /\ \A k \in DOMAIN basic : \E i \in FirstSlots(a) : a[i].id = basic[k].id
          /\ \A k, l \in DOMAIN full : k < l => slot(full[k]) < slot(full[l])
          /\ \A k, l \in DOMAIN basic : k < l => slot(basic[k]) < slot(basic[l])

\* an image between a summary with the empty image and one without image
C8_Witness ==
    /\ results # Undefined
    /\ Len(results[1].fullArticles) = 1
    /\ Len(results[1].basicArticles) = 2
    /\ results[1].basicArticles[1].image = ""
    /\ results[1].basicArticles[2].image = NoThumbnail
    /\ attempts[committer].articles[2] = results[1].fullArticles[1]

\* C9: count is the total of the two sequences, the number of distinct entity
\* ids resolved and not the number of identifiers, and more is the flag of the
\* index response of the attempt that committed.
C9_CountAndMore ==
    results # Undefined =>
      LET a == attempts[committer].articles
      IN  /\ results[1].count =
               Len(results[1].fullArticles) + Len(results[1].basicArticles)
          /\ results[1].count = Cardinality({a[i].id : i \in OkSlots(a)})
          /\ results[1].more = attempts[committer].titles.more

\* three identifiers, one failed and two on one page: count is 1, more is set
C9_Witness ==
    /\ results # Undefined
    /\ Len(attempts[committer].titles.results) = 3
    /\ Cardinality(OkSlots(attempts[committer].articles)) = 2
    /\ results[1].count = 1
    /\ results[1].more

\* the maximal runs of alphanumeric characters of s, as <<first, last>>
Runs(s) ==
    {r \in (DOMAIN s) \X (DOMAIN s) :
       /\ r[1] <= r[2]
       /\ \A i \in r[1] .. r[2] : IsAlnum(s[i])
       /\ r[1] = 1 \/ ~IsAlnum(s[r[1] - 1])
       /\ r[2] = Len(s) \/ ~IsAlnum(s[r[2] + 1])}

\* C10: tokenizer.  The terms of every attempt are the maximal runs of
\* [A-Za-z0-9] of its raw query, in order of appearance and lowercased; no term is
\* empty, and a query without alphanumeric character has no term.
C10_Tokenizer ==
    \A h \in Handles :
      LET s     == attempts[h].raw
          terms == attempts[h].terms
      IN  /\ Len(terms) = Cardinality(Runs(s))
          /\ \A r \in Runs(s) :
               LET n == 1 + Cardinality({p \in Runs(s) : p[1] < r[1]})
               IN  /\ Len(terms[n]) = r[2] - r[1] + 1
                   /\ \A i \in DOMAIN terms[n] :
                        /\ terms[n][i] \notin Range(UpperChars)
                        /\ terms[n][i] = s[r[1] + i - 1]
                           \/ \E c \in DOMAIN UpperChars :
                                /\ s[r[1] + i - 1] = UpperChars[c]
                                /\ terms[n][i] = LowerChars[c]
          /\ \A n \in DOMAIN terms : terms[n] # <<>>
          /\ (\A i \in DOMAIN s : ~IsAlnum(s[i])) => terms = <<>>

\* a query with leading and trailing separators around an uppercase letter has
\* been sent to the index
C10_Witness ==
    \E h \in Handles :
      /\ attempts[h].raw = <<",", "A", " ">>
      /\ attempts[h].terms = <<<<"a">>>>
      /\ attempts[h].pc = "searching"

\* C11: wait-for-all fan-out.  An attempt commits only when every resolution
\* it issued has settled: no step commits while a slot of the attempt is still
\* pending, and the first resolution to complete does not end the wait.
C11_Inv ==
    \A h \in Handles :
      /\ attempts[h].pc = "done" =>
           /\ Len(attempts[h].articles) = Len(attempts[h].titles.results)
           /\ \A i \in DOMAIN attempts[h].articles :
                attempts[h].articles[i].st \in {"ok", "null"}
      /\ committer = h => attempts[h].pc = "done"

C11_WaitForAll ==
    /\ []C11_Inv
    /\ [][\A h \in Handles :
            /\ results' # results /\ results' # Undefined /\ committer' = h =>
                 \A i \in DOMAIN attempts'[h].articles :
                   attempts'[h].articles[i] # Pending
            /\ (/\ attempts[h].pc = "fetching"
                /\ attempts'[h].pc = "fetching"
                /\ attempts'[h].articles # attempts[h].articles) =>
                 /\ \E i \in DOMAIN attempts'[h].articles :
                      attempts'[h].articles[i] = Pending
                 /\ results' = results]_vars

\* three resolutions, a failed one among them, all settled and then committed
C11_Witness ==
    /\ results # Undefined
    /\ attempts[committer].pc = "done"
    /\ Len(attempts[committer].articles) = 3
    /\ attempts[committer].articles[1].st = "null"
    /\ attempts[committer].articles[2].st = "ok"
    /\ attempts[committer].articles[3].st = "ok"

\* C12: concurrent fan-out.  The step that takes the index response issues one
\* resolution per returned identifier, duplicates included, all of them
\* outstanding at once; from then on slot i holds the outcome of identifier i
\* whatever the order of completion, and the committed object is the one those
\* slots determine.
C12_Inv ==
    \A h \in Handles :
      attempts[h].pc \in {"fetching", "done", "aborted"} =>
        LET a   == attempts[h].articles
            ids == attempts[h].titles.results
        IN  /\ DOMAIN a = DOMAIN ids
            /\ \A i \in OkSlots(a) : a[i].title = ids[i]
            /\ committer = h =>
                 LET all == results[1].fullArticles \o results[1].basicArticles
                 IN  {all[k] : k \in DOMAIN all} = {a[i] : i \in FirstSlots(a)}

C12_ConcurrentFanout ==
    /\ []C12_Inv
    /\ [][\A h \in Handles :
            attempts[h].pc = "searching" /\ attempts'[h].pc = "fetching" =>
              /\ Len(attempts'[h].articles) = Len(attempts'[h].titles.results)
              /\ \A i \in DOMAIN attempts'[h].articles :
                   attempts'[h].articles[i] = Pending]_vars

\* identifier A returned twice: its second resolution and that of B have
\* completed while the first one is still outstanding
C12_Witness ==
    \E h \in Handles :
      /\ attempts[h].pc = "fetching"
      /\ attempts[h].titles.results = <<"A", "B", "A">>
      /\ attempts[h].articles[1] = Pending
      /\ attempts[h].articles[2].st = "ok"
      /\ attempts[h].articles[3].st = "ok"

\* C13: the token of an attempt is the timer handle, created when the attempt
\* is scheduled: every submission changes searchDebounce.current in the same
\* step to a fresh handle whose timer is only pending, and no other step (a
\* timer firing in particular) changes it.
C13_TokenAtScheduling ==
    [][/\ query' # query =>
            /\ searchDebounce' # searchDebounce
            /\ searchDebounce' \notin Handles
            /\ searchDebounce' \in DOMAIN attempts'
            /\ attempts'[searchDebounce'].pc = "scheduled"
            /\ \A h \in Handles : Started(h) => h # searchDebounce'
       /\ query' = query => searchDebounce' = searchDebounce]_vars

\* an attempt in flight no longer matches the token, while the timer of the
\* newer submission has not fired
C13_Witness ==
    \E h \in Handles :
      /\ attempts[h].pc \in {"searching", "fetching"}
      /\ h # searchDebounce
      /\ attempts[searchDebounce].pc = "scheduled"
      /\ attempts[searchDebounce].remaining > 0

\* C14: when a timer fires, the terms its callback sends to the index are the
\* tokenization of the raw query current at that moment, which is the query
\* the attempt was scheduled for.
C14_TermsOfCurrentQuery ==
    [][\A h \in Handles :
         attempts[h].pc = "scheduled" /\ attempts'[h].pc = "searching" =>
           /\ attempts'[h].terms = Tokenize(query)
           /\ attempts'[h].raw = query
           /\ query' = query]_vars

\* the query was replaced before the first timer fired; the attempt in flight
\* carries the terms of the replacement
C14_Witness ==
    /\ searchDebounce > 1
    /\ attempts[searchDebounce - 1].pc = "cancelled"
    /\ attempts[searchDebounce].pc = "searching"
    /\ query = <<"A", " ", "b">>
    /\ attempts[searchDebounce].terms = <<<<"a">>, <<"b">>>>

\* C15: early discard.  An attempt that is superseded when its index response
\* arrives issues no resolution and ends, leaving results and the current token
\* as they were.
C15_Inv ==
    \A h \in Handles :
      attempts[h].pc = "stale" =>
        /\ attempts[h].articles = <<>>
        /\ h # searchDebounce

C15_EarlyDiscard ==
    /\ []C15_Inv
    /\ [][\A h \in Handles :
            /\ attempts[h].pc = "searching"
            /\ h # searchDebounce
            /\ attempts'[h].pc \notin {"searching", "rejected"}
            => /\ attempts'[h].pc = "stale"
               /\ attempts'[h].articles = <<>>
               /\ results' = results
               /\ searchDebounce' = searchDebounce]_vars

\* an attempt was discarded, and the object of a later attempt is in results
C15_Witness ==
    \E h \in Handles :
      /\ attempts[h].pc = "stale"
      /\ results # Undefined
      /\ committer > h

\* C16: eventual consistency.  Once results holds the object of the attempt of
\* the last raw query it keeps it for as long as the query does not change: no
\* late completion of an earlier attempt replaces it.
C16_EventualConsistency ==
    [][committer = searchDebounce /\ query' = query =>
         /\ committer' = searchDebounce
         /\ results' = results]_vars

\* C17: a timer is scheduled for every raw query, the initial empty string and
\* queries without terms included, so only a superseded attempt is cancelled;
\* when its timer fires the callback calls the index with its terms, empty or
\* not, and the response of an attempt without terms is committed or fanned
\* out like any other.
C17_Inv ==
    \A h \in Handles :
      /\ attempts[h].pc = "cancelled" => h < searchDebounce
      /\ attempts[h].terms = <<>> <=> \A i \in DOMAIN attempts[h].raw :
                                         ~IsAlnum(attempts[h].raw[i])

C17_EmptyTermsStillSearch ==
    /\ []C17_Inv
    /\ [][\A h \in Handles :
            /\ attempts[h].pc = "scheduled" /\ attempts'[h].pc \notin {"scheduled", "cancelled"}
                 => attempts'[h].pc = "searching" /\ attempts'[h].terms = attempts[h].terms
            /\ (/\ attempts[h].terms = <<>>
                /\ attempts[h].pc = "searching"
                /\ h = searchDebounce
                /\ attempts'[h].pc \notin {"searching", "rejected"})
                 => \/ attempts'[h].pc = "done" /\ committer' = h /\ results' # Undefined
                    \/ attempts'[h].pc = "fetching"]_vars

\* the attempt of the initial empty string and that of a query made of
\* separators have both fired and committed
C17_Witness ==
    /\ Len(attempts) = 2
    /\ attempts[1].raw = <<>>
    /\ attempts[1].pc = "done"
    /\ attempts[2].raw = <<",", " ">>
    /\ attempts[2].terms = <<>>
    /\ attempts[2].pc = "done"
    /\ committer = 2
    /\ results[1].count = 0

=============================================================================
